---- MODULE Spec2Model ----
(***************************************************************************)
(* Model of irase_data_manager: the COMSOL grid ingestion pipeline         *)
(* (simulator.upload_data, _check_input_values, _reshape_data,             *)
(* _check_reshaped_data, _extract_comsol_metadata), the transfers of       *)
(* utils.py (download_file, upload_file), download_data, and               *)
(* experiments.upload_data with extract_article_metadata and               *)
(* validate_experiment_metadata.                                           *)
(*                                                                         *)
(* Numbers.  Coordinates, sizes and steps are float64 in the program.      *)
(* Here they are integers counted in a resolution of 1e-6 length units, so *)
(* that the tolerance of numpy.allclose (atol = 1e-8, rtol = 1e-5) is an   *)
(* integer computation.  Division is exact on these values; the rounding   *)
(* of float64 division is not modelled.  Channel values are integers or    *)
(* NaN (COMSOL writes NaN for points outside the geometry); coordinates    *)
(* are never NaN.                                                          *)
(***************************************************************************)
EXTENDS Integers, Sequences, FiniteSets, TLC

VARIABLES
    size,         \* upload_data's size argument, <<x, y, z>>
    step,         \* upload_data's step argument, <<x, y, z>>
    num_values,   \* the channel count (metadata["expressions"])
    data,         \* the flat table read by np.loadtxt: a sequence of rows
    variant,      \* how the table was built (provenance of the input)
    pc,           \* position in the grid pipeline
    steps,        \* upload_data's (num_x_steps, num_y_steps, num_z_steps)
    vresult,      \* outcome of _check_input_values
    rresult,      \* outcome of _reshape_data
    file,         \* the text file given to _extract_comsol_metadata
    nread,        \* number of readline() calls made so far
    metadata,     \* the metadata mapping being built
    mpc           \* position in _extract_comsol_metadata

VARIABLES
    op,           \* the transfer operation that was called
    npc,          \* position in that operation
    reqs,         \* the HTTP requests issued so far, in order
    resps,        \* the response to each of them
    parts,        \* upload_file: the part list of the upload service
    nput,         \* upload_file: number of parts whose PUT succeeded
    nerr,         \* the exception that ended the operation, if any
    listing,      \* download_data: the files the article lists (their names)
    didx,         \* download_data: number of files downloaded so far
    save_path,    \* download_file: what save_path is ("missing", "dir", "notdir")
    disk,         \* the files under save_path: name -> content
    exp_metadata, \* experiments.upload_data: the caller's metadata mapping
    metadata_arg, \* that mapping as it was when upload_data was called
    article_metadata, \* the mapping extract_article_metadata returned
    missing_metadata, \* validate_experiment_metadata: the required keys not found
    container,    \* the container (.hdf5) file: whether written, and what it holds
    sidx,         \* simulator.upload_data: the series being processed (1..4)
    groups,       \* simulator.upload_data: metadata and array of the series done
    log           \* simulator.upload_data: the stages entered so far, in order

gridvars == <<size, step, num_values, data, variant, pc, steps, vresult, rresult>>
metavars == <<file, nread, metadata, mpc>>
uploadvars == <<parts, nput>>
downloadvars == <<listing, didx, save_path, disk>>
expvars == <<exp_metadata, metadata_arg, article_metadata, missing_metadata, container>>
simvars == <<sidx, groups, log>>
netvars == <<op, npc, reqs, resps, nerr, uploadvars, downloadvars, expvars, simvars>>
vars == <<gridvars, metavars, netvars>>

----------------------------------------------------------------------------
(* Bounds of the model *)

\* channel counts 1..MaxValues
MaxValues == 2
\* declared sizes are -1, 1 .. MaxMult grid units
MaxMult == 2
\* files of at most MaxLines lines
MaxLines == 3

----------------------------------------------------------------------------
(* Numbers *)

\* 1/rtol of numpy.allclose (rtol = 1e-5)
RtolInv == 100000
\* atol/rtol of numpy.allclose (atol = 1e-8), in units of the resolution 1e-6
AtolOverRtol == 1000
\* the float64 NaN, kept apart from every number of the model
NaN == -999999999

\* one grid unit (0.1 length units) in units of the resolution
Unit == 1 * RtolInv
Half == Unit \div 2

Abs(a) == IF a < 0 THEN -a ELSE a

\* Python's int(a / b) for b # 0: truncation toward zero
IntTrunc(a, b) ==
    IF (a >= 0) = (b > 0) THEN Abs(a) \div Abs(b) ELSE -(Abs(a) \div Abs(b))

\* numpy.allclose(a, b) on scalars: |a - b| <= atol + rtol * |b|
AllClose(a, b) == Abs(a - b) <= (AtolOverRtol + Abs(b)) \div RtolInv

\* == on float64: NaN equals nothing, itself included
FloatEq(a, b) == a # NaN /\ b # NaN /\ a = b

SetMax(S) == CHOOSE m \in S : \A x \in S : x <= m

----------------------------------------------------------------------------
(* The flat tables given to the pipeline.  A table is a sequence of rows,   *)
(* a row a sequence x, y, z, value_1 .. value_C.  The tables are the        *)
(* x-fastest lattice of the declared grid and the tables one edit away from *)
(* it: another row order, a row removed, a column added, a coordinate       *)
(* moved, an axis shifted, rescaled or cut short, a NaN channel value.      *)

\* a lattice has at least one point per axis
LatDim(k) == IF k < 1 THEN 1 ELSE k

\* the value of channel c (1-based) at lattice point (ix, iy, iz)
PointValue(n, ix, iy, iz, c) == 10 * (ix + iy * n[1] + iz * n[1] * n[2]) + c

LatticeRow(n, st, C, ix, iy, iz) ==
    <<ix * st[1], iy * st[2], iz * st[3]>>
        \o [c \in 1..C |-> PointValue(n, ix, iy, iz, c)]

\* rows enumerated with x varying fastest, then y, then z
XFastest(n, st, C) ==
    [r \in 1..(n[1] * n[2] * n[3]) |->
        LatticeRow(n, st, C, (r - 1) % n[1],
                             ((r - 1) \div n[1]) % n[2],
                             (r - 1) \div (n[1] * n[2]))]

\* rows enumerated with z varying fastest, then y, then x
ZFastest(n, st, C) ==
    [r \in 1..(n[1] * n[2] * n[3]) |->
        LatticeRow(n, st, C, (r - 1) \div (n[3] * n[2]),
                             ((r - 1) \div n[3]) % n[2],
                             (r - 1) % n[3])]

RemoveRow(t, r) == [i \in 1..(Len(t) - 1) |-> IF i < r THEN t[i] ELSE t[i + 1]]

Deltas == {-Half, -1, 1, Half}

NoEdit == [kind |-> "valid", row |-> 0, axis |-> 0, delta |-> 0]

\* the rows a single-cell edit may touch: the four corner rows and the last
EditRows(n) ==
    {1, 2, n[1] + 1, n[1] * n[2] + 1, n[1] * n[2] * n[3]}
        \cap (1..(n[1] * n[2] * n[3]))

Variants(n, C) ==
    {NoEdit, [NoEdit EXCEPT !.kind = "zfastest"], [NoEdit EXCEPT !.kind = "extracol"]}
    \cup {[NoEdit EXCEPT !.kind = "rowdel", !.row = r] :
            r \in IF n[1] * n[2] * n[3] >= 2 THEN 1..(n[1] * n[2] * n[3]) ELSE {}}
    \cup {[kind |-> "pert", row |-> r, axis |-> a, delta |-> d] :
            r \in EditRows(n), a \in 1..3, d \in Deltas}
    \cup {[kind |-> "shift", row |-> 0, axis |-> a, delta |-> d] :
            a \in 1..3, d \in Deltas}
    \cup {[NoEdit EXCEPT !.kind = "scaled", !.axis = a] : a \in 1..3}
    \cup {[NoEdit EXCEPT !.kind = "truncated", !.axis = a] : a \in {b \in 1..3 : n[b] >= 2}}
    \cup {[kind |-> "nan", row |-> r, axis |-> c, delta |-> 0] :
            r \in EditRows(n), c \in 1..C}

\* the table of a variant, for lattice dimensions n, lattice step st, C channels
MakeTable(v, n, st, C) ==
    LET base == XFastest(n, st, C) IN
    CASE v.kind = "valid"    -> base
      [] v.kind = "zfastest" -> ZFastest(n, st, C)
      [] v.kind = "extracol" -> [r \in DOMAIN base |-> Append(base[r], 0)]
      [] v.kind = "rowdel"   -> RemoveRow(base, v.row)
      [] v.kind = "pert"     ->
            [base EXCEPT ![v.row][v.axis] = @ + v.delta]
      [] v.kind = "shift"    ->
            [r \in DOMAIN base |-> [base[r] EXCEPT ![v.axis] = @ + v.delta]]
      [] v.kind = "scaled"   ->
            [r \in DOMAIN base |-> [base[r] EXCEPT ![v.axis] = 2 * @]]
      [] v.kind = "truncated" ->
            SelectSeq(base, LAMBDA row : row[v.axis] # (n[v.axis] - 1) * st[v.axis])
      [] v.kind = "nan"      ->
            [base EXCEPT ![v.row][3 + v.axis] = NaN]

----------------------------------------------------------------------------
(* _check_input_values *)

\* the step count without the last point
NumStepsNoEndpoint(sz, st) == IntTrunc(sz, st)

\* num_*_steps = int(size / step) + 1
NumSteps(sz, st) == IntTrunc(sz, st) + 1

StepsPerAxis(sz, st) == [a \in 1..3 |-> NumSteps(sz[a], st[a])]

\* the division size[a] / step[a] raises ZeroDivisionError
DivisionFails(sz, st) == \E a \in 1..3 : st[a] = 0

\* the column's minimum taken for its maximum
ColMin(t, a) == CHOOSE m \in {t[r][a] : r \in 1..Len(t)} : \A r \in 1..Len(t) : m <= t[r][a]

\* data[:, a].max()
ColMax(t, a) == SetMax({t[r][a] : r \in 1..Len(t)})

\* np.diff(data[:, a]).min(): the smallest difference taken for the largest
DiffMin(t, a) ==
    CHOOSE m \in {t[r + 1][a] - t[r][a] : r \in 1..(Len(t) - 1)} :
        \A r \in 1..(Len(t) - 1) : m <= t[r + 1][a] - t[r][a]

\* np.diff(data[:, a]).max(), for a table of at least two rows
DiffMax(t, a) == SetMax({t[r + 1][a] - t[r][a] : r \in 1..(Len(t) - 1)})

\* the assertions without the last size check
CheckOrderNoSizeZ ==
    <<"rows", "cols", "step_x", "step_y", "step_z", "size_x", "size_y">>

\* the order in which the assertions are made
CheckOrder ==
    <<"rows", "cols", "step_x", "step_y", "step_z", "size_x", "size_y", "size_z">>

AxisOf(check) ==
    CASE check \in {"step_x", "size_x"} -> 1
      [] check \in {"step_y", "size_y"} -> 2
      [] check \in {"step_z", "size_z"} -> 3

\* the row count compared with <= instead of ==
RowsAtMost(n, t) == Len(t) <= n[1] * n[2] * n[3]

\* num_x_steps * num_y_steps * num_z_steps == len(data)
RowsMatch(n, t) == n[1] * n[2] * n[3] = Len(t)

\* one assertion: "pass", "fail" (AssertionError) or "error" (max() of an
\* empty np.diff raises ValueError)
CheckResult(check, sz, st, C, t) ==
    LET n == StepsPerAxis(sz, st) IN
    CASE check = "rows" ->
            IF RowsMatch(n, t) THEN "pass" ELSE "fail"
      [] check = "cols" ->
            IF Len(t[1]) = C + 3 THEN "pass" ELSE "fail"
      [] check \in {"step_x", "step_y", "step_z"} ->
            IF Len(t) < 2 THEN "error"
            ELSE IF AllClose(DiffMax(t, AxisOf(check)), st[AxisOf(check)])
                 THEN "pass" ELSE "fail"
      [] check \in {"size_x", "size_y", "size_z"} ->
            IF AllClose(ColMax(t, AxisOf(check)), sz[AxisOf(check)])
            THEN "pass" ELSE "fail"

\* every assertion evaluated and the last failure reported
RunChecksLast(k, sz, st, C, t) ==
    LET bad == {j \in k..Len(CheckOrder) : CheckResult(CheckOrder[j], sz, st, C, t) # "pass"} IN
    IF bad = {}
    THEN [outcome |-> "pass", check |-> "none", evaluated |-> CheckOrder]
    ELSE [outcome |-> CheckResult(CheckOrder[SetMax(bad)], sz, st, C, t),
          check |-> CheckOrder[SetMax(bad)], evaluated |-> CheckOrder]

RECURSIVE RunChecks(_, _, _, _, _)
\* the assertions from the k-th on, stopping at the first that does not pass
RunChecks(k, sz, st, C, t) ==
    LET r == CheckResult(CheckOrder[k], sz, st, C, t) IN
    IF r # "pass"
    THEN [outcome |-> r, check |-> CheckOrder[k], evaluated |-> SubSeq(CheckOrder, 1, k)]
    ELSE IF k = Len(CheckOrder)
    THEN [outcome |-> "pass", check |-> "none", evaluated |-> CheckOrder]
    ELSE RunChecks(k + 1, sz, st, C, t)

\* the text of an exception: the check it names and the two values it shows
\* after "Expected" and after "got"
NoMessage == [names |-> "none", expected |-> 0, got |-> 0]

\* the f-string of each assertion, evaluated when the assertion fails; the
\* ValueError numpy raises for max() of an empty array names no check
AssertMessage(check, outcome, sz, st, C, t) ==
    LET n == StepsPerAxis(sz, st) IN
    CASE outcome # "fail" -> NoMessage
      [] check = "rows" ->
            [names |-> check, expected |-> n[1] * n[2] * n[3], got |-> Len(t)]
      [] check = "cols" ->
            [names |-> check, expected |-> Len(t[1]), got |-> C + 3]
      [] check \in {"step_x", "step_y", "step_z"} ->
            [names |-> check, expected |-> DiffMax(t, AxisOf(check)),
             got |-> st[AxisOf(check)]]
      [] check \in {"size_x", "size_y", "size_z"} ->
            [names |-> check, expected |-> ColMax(t, AxisOf(check)),
             got |-> sz[AxisOf(check)]]

NoResult ==
    [outcome |-> "none", check |-> "none", evaluated |-> <<>>, nsteps |-> <<0, 0, 0>>,
     message |-> NoMessage]

\* the whole validator; nsteps records the num_*_steps it computed
_check_input_values(sz, st, C, t) ==
    IF DivisionFails(sz, st)
    THEN [NoResult EXCEPT !.outcome = "ZeroDivisionError"]
    ELSE LET r == RunChecks(1, sz, st, C, t) IN
         [outcome |-> r.outcome, check |-> r.check, evaluated |-> r.evaluated,
          nsteps |-> StepsPerAxis(sz, st),
          message |-> AssertMessage(r.check, r.outcome, sz, st, C, t)]

----------------------------------------------------------------------------
(* _reshape_data and _check_reshaped_data.  Arrays are indexed from 0, as   *)
(* in numpy; table rows and row entries from 1, as TLA+ sequences.          *)

\* data[:, 3:] read row by row (C order)
RavelC(t) ==
    LET Cd == Len(t[1]) - 3 IN
    [k \in 0..(Len(t) * Cd - 1) |-> t[(k \div Cd) + 1][3 + (k % Cd) + 1]]

\* data[:, 3:] read in Fortran order: element k (0-based) of the (N, Cd)
\* matrix, first index fastest
RavelF(t) ==
    LET N == Len(t) IN
    [k \in 0..(N * (Len(t[1]) - 3) - 1) |-> t[(k % N) + 1][3 + (k \div N) + 1]]

\* the reshape without order="F": last index fastest
ReshapeC(flat, nx, ny, nz, C) ==
    [ix \in 0..(nx - 1) |-> [iy \in 0..(ny - 1) |-> [iz \in 0..(nz - 1) |->
        [c \in 0..(C - 1) |-> flat[((ix * ny + iy) * nz + iz) * C + c]]]]]

\* .reshape(nx, ny, nz, C, order="F"): element (ix, iy, iz, c) is element
\* ix + nx*iy + nx*ny*iz + nx*ny*nz*c of the Fortran-order reading
ReshapeF(flat, nx, ny, nz, C) ==
    [ix \in 0..(nx - 1) |-> [iy \in 0..(ny - 1) |-> [iz \in 0..(nz - 1) |->
        [c \in 0..(C - 1) |->
            flat[ix + nx * iy + nx * ny * iz + nx * ny * nz * c]]]]]

\* .transpose(3, 0, 1, 2)
Transpose3012(A, nx, ny, nz, C) ==
    [c \in 0..(C - 1) |-> [ix \in 0..(nx - 1) |-> [iy \in 0..(ny - 1) |->
        [iz \in 0..(nz - 1) |-> A[ix][iy][iz][c]]]]]

\* original_data[r, 3:] for the 0-based row r
Channels(t, r) == [c \in 0..(Len(t[1]) - 4) |-> t[r + 1][3 + c + 1]]

\* reshaped_data[:, ix, iy, iz]
Slice(R, C, ix, iy, iz) == [c \in 0..(C - 1) |-> R[c][ix][iy][iz]]

\* np.all(a == b) for two slices of the same length (no other lengths arise
\* once the reshape has succeeded on the tables above)
AllEqual(a, b) ==
    DOMAIN a = DOMAIN b /\ \A c \in DOMAIN a : FloatEq(a[c], b[c])

\* the four assertions, in order: index (ix, iy, iz) of the reshaped array
\* against the 0-based row of the original table
Corners(nx, ny) ==
    << [ix |-> 0, iy |-> 0, iz |-> 0, row |-> 0],
       [ix |-> 1, iy |-> 0, iz |-> 0, row |-> 1],
       [ix |-> 0, iy |-> 1, iz |-> 0, row |-> nx],
       [ix |-> 0, iy |-> 0, iz |-> 1, row |-> nx * ny] >>

\* one assertion of _check_reshaped_data: "pass", "AssertionError", or
\* "IndexError" when an index lies outside the array or the table
CornerResult(k, R, t, nx, ny, nz, C) ==
    LET q == Corners(nx, ny)[k] IN
    IF q.ix >= nx \/ q.iy >= ny \/ q.iz >= nz \/ q.row >= Len(t)
    THEN "IndexError"
    ELSE IF AllEqual(Slice(R, C, q.ix, q.iy, q.iz), Channels(t, q.row))
    THEN "pass" ELSE "AssertionError"

RECURSIVE _check_reshaped_data(_, _, _, _, _, _, _)
\* the assertions from the k-th on; 0 when all pass
_check_reshaped_data(k, R, t, nx, ny, nz, C) ==
    LET r == CornerResult(k, R, t, nx, ny, nz, C) IN
    IF r # "pass" THEN [outcome |-> r, corner |-> k]
    ELSE IF k = 4 THEN [outcome |-> "ok", corner |-> 0]
    ELSE _check_reshaped_data(k + 1, R, t, nx, ny, nz, C)

NoReshape == [outcome |-> "none", corner |-> 0, array |-> <<>>]

\* the whole of _reshape_data, for dimensions >= 0: numpy refuses a reshape
\* that changes the number of elements (ValueError)
_reshape_data(t, nx, ny, nz, C) ==
    IF Len(t) * (Len(t[1]) - 3) # nx * ny * nz * C
    THEN [outcome |-> "ValueError", corner |-> 0, array |-> <<>>]
    ELSE LET R == Transpose3012(ReshapeF(RavelF(t), nx, ny, nz, C), nx, ny, nz, C)
             chk == _check_reshaped_data(1, R, t, nx, ny, nz, C)
         IN  [outcome |-> chk.outcome, corner |-> chk.corner,
              array |-> IF chk.outcome = "ok" THEN R ELSE <<>>]

----------------------------------------------------------------------------
(* _extract_comsol_metadata.  A line is a sequence of characters; a word of *)
(* the header ("Version", "1000") counts as one character, the blank " ",   *)
(* the marker "%" and the colon ":" are characters of their own.  The line  *)
(* terminator is not kept: a blank line and the end of the file both read   *)
(* as the empty line.                                                       *)

RECURSIVE LStrip(_)
LStrip(s) == IF s # <<>> /\ Head(s) = " " THEN LStrip(Tail(s)) ELSE s

RECURSIVE RStrip(_)
RStrip(s) ==
    IF s # <<>> /\ s[Len(s)] = " " THEN RStrip(SubSeq(s, 1, Len(s) - 1)) ELSE s

\* str.rstrip() in the place of str.strip()
StripRight(s) == RStrip(s)

\* str.strip()
Strip(s) == LStrip(RStrip(s))

\* str.startswith("%")
StartsWithMarker(s) == s # <<>> /\ Head(s) = "%"

RECURSIVE Split(_, _)
\* str.split(sep): the segments between the separators, at least one
Split(s, sep) ==
    IF \A i \in 1..Len(s) : s[i] # sep THEN <<s>>
    ELSE LET i == CHOOSE k \in 1..Len(s) : s[k] = sep /\ \A j \in 1..(k - 1) : s[j] # sep IN
         <<SubSeq(s, 1, i - 1)>> \o Split(SubSeq(s, i + 1, Len(s)), sep)

RECURSIVE Join(_, _)
\* sep.join(segs)
Join(segs, sep) ==
    IF segs = <<>> THEN <<>>
    ELSE IF Len(segs) = 1 THEN segs[1]
    ELSE segs[1] \o <<sep>> \o Join(Tail(segs), sep)

\* int(value): the decimal words have a value, anything else is a ValueError
IntWords == {"3", "7", "1000"}
IntValue(w) == CASE w = "3" -> 3 [] w = "7" -> 7 [] w = "1000" -> 1000
IsInt(v) == Len(v) = 1 /\ v[1] \in IntWords

\* time.strptime(value, "%b %d %Y, %H:%M") accepts the text of this layout
DateText == <<"Jan", " ", "5", " ", "2023,", " ", "10", ":", "30">>
\* time.strftime("%Y-%m-%dT%H:%M:%SZ", ...) of that time
IsoDate == <<"2023-01-05T10:30:00Z">>
IsDate(v) == v = DateText

\* a comparison that takes "nodes" for "Nodes"
KeyIsAnyCase(key, name) == key = name \/ (name = <<"Nodes">> /\ key = <<"nodes">>)

\* key == "Version", key == "Date", ...: the comparison of str, exact and
\* case-sensitive
KeyIs(key, name) == key = name

\* the body of the loop for a comment line: the metadata after it, or the
\* ValueError of int() or strptime()
ProcessLine(line, md) ==
    LET segments == Split(Tail(line), ":")
        value == Strip(Join(Tail(segments), ":"))
        key   == Strip(segments[1])
    IN  CASE KeyIs(key, <<"Version">>) -> [ok |-> TRUE, md |-> ("COMSOL_version" :> value) @@ md]
          [] KeyIs(key, <<"Date">>) ->
                IF IsDate(value) THEN [ok |-> TRUE, md |-> ("date" :> IsoDate) @@ md]
                ELSE [ok |-> FALSE, md |-> md]
          [] KeyIs(key, <<"Nodes">>) ->
                IF IsInt(value) THEN [ok |-> TRUE, md |-> ("nodes" :> IntValue(value[1])) @@ md]
                ELSE [ok |-> FALSE, md |-> md]
          [] KeyIs(key, <<"Expressions">>) ->
                IF IsInt(value)
                THEN [ok |-> TRUE, md |-> ("expressions" :> IntValue(value[1])) @@ md]
                ELSE [ok |-> FALSE, md |-> md]
          [] KeyIs(key, <<"Dimensions">>) ->
                IF IsInt(value)
                THEN [ok |-> TRUE, md |-> ("dimensions" :> IntValue(value[1])) @@ md]
                ELSE [ok |-> FALSE, md |-> md]
          [] KeyIs(key, <<"Length", " ", "unit">>) ->
                [ok |-> TRUE, md |-> ("length_unit" :> value) @@ md]
          [] OTHER -> [ok |-> TRUE, md |-> md]

\* the lines a file is made of
LineSamples ==
    { <<"%", " ", "Version", ":", " ", "5.6">>,
      <<"%", " ", "Date", ":", " ", "Jan", " ", "5", " ", "2023,", " ", "10", ":", "30">>,
      <<"%", " ", "Nodes", ":", " ", "1000">>,
      <<"%", " ", "Expressions", ":", " ", "3">>,
      <<"%", "Dimensions", " ", ":", "3", " ">>,
      <<"%", " ", "Length", " ", "unit", ":", " ", "mm">>,
      <<"%", " ", "Model", ":", " ", "x.mph">>,
      <<"%", " ", "nodes", ":", " ", "7">>,
      <<"%", " ", "Nodes", ":", " ", "5.6">>,
      <<" ", "%", " ", "Nodes", ":", " ", "7">>,
      <<"%", " ", "x", " ", "y">>,
      <<"%", " ", "Version">>,
      <<"1", " ", "2", " ", "%", " ", "Nodes", ":", " ", "3">>,
      <<"1", " ", "2", " ", "3">>,
      <<>> }

\* a readline() that gives the last line again at the end of the file
ReadlineAgain(f, k) ==
    IF k <= Len(f) THEN f[k] ELSE IF f = <<>> THEN <<>> ELSE f[Len(f)]

\* f.readline() for the k-th call: the k-th line, or '' at the end of the file
Readline(f, k) == IF k <= Len(f) THEN f[k] ELSE <<>>

RECURSIVE ExtractLoop(_, _, _)
\* the while loop from the k-th readline on, with the metadata built so far
ExtractLoop(f, k, md) ==
    LET line == Strip(Readline(f, k)) IN
    IF StartsWithMarker(line)
    THEN LET r == ProcessLine(line, md) IN
         IF r.ok THEN ExtractLoop(f, k + 1, r.md)
         ELSE [outcome |-> "ValueError", metadata |-> r.md, nread |-> k]
    ELSE [outcome |-> "ok", metadata |-> md, nread |-> k]

\* a whole call of _extract_comsol_metadata
_extract_comsol_metadata(f) == ExtractLoop(f, 1, <<>>)

----------------------------------------------------------------------------
(* The grid pipeline of upload_data for one series *)

SizeVals == {-Unit} \cup {m * Unit : m \in 1..MaxMult}
StepVals == {0, Unit, 2 * Unit}

EmptyMap == <<>>

\* the file names of an article
Names == {"a.hdf5", "b.hdf5"}

\* no file under save_path
EmptyDisk == [n \in Names |-> "absent"]

\* {}
EmptyDict == <<>>

\* no container file
NoContainer == [written |-> FALSE, attrs |-> EmptyDict, groups |-> <<>>]

\* no exception
NoError == [kind |-> "none", payload |-> "none"]

NetIdle ==
    /\ op = "none"
    /\ npc = "idle"
    /\ reqs = <<>>
    /\ resps = <<>>
    /\ parts = <<>>
    /\ nput = 0
    /\ nerr = NoError
    /\ listing = <<>>
    /\ didx = 0
    /\ save_path = "dir"
    /\ disk = EmptyDisk
    /\ exp_metadata = EmptyDict
    /\ metadata_arg = EmptyDict
    /\ article_metadata = EmptyDict
    /\ missing_metadata = <<>>
    /\ container = NoContainer
    /\ sidx = 0
    /\ groups = <<>>
    /\ log = <<>>

MetaIdle ==
    /\ file = <<>>
    /\ nread = 0
    /\ metadata = EmptyMap
    /\ mpc = "idle"

Init ==
    /\ size \in SizeVals \X SizeVals \X SizeVals
    /\ step \in StepVals \X StepVals \X StepVals
    /\ num_values \in 1..MaxValues
    /\ data = <<>>
    /\ variant = NoEdit
    /\ pc = "start"
    /\ steps = <<0, 0, 0>>
    /\ vresult = NoResult
    /\ rresult = NoReshape
    /\ MetaIdle
    /\ NetIdle

\* upload_data, lines 99-101
ComputeSteps ==
    /\ pc = "start"
    /\ IF DivisionFails(size, step)
       THEN pc' = "raised" /\ steps' = steps
       ELSE pc' = "stepped" /\ steps' = StepsPerAxis(size, step)
    /\ UNCHANGED <<size, step, num_values, data, variant, vresult, rresult>>
    /\ UNCHANGED metavars
    /\ UNCHANGED netvars

\* np.loadtxt: the table of the series
LoadData ==
    /\ pc = "stepped"
    /\ \E v \in Variants([a \in 1..3 |-> LatDim(steps[a])], num_values) :
          /\ variant' = v
          /\ data' = MakeTable(v, [a \in 1..3 |-> LatDim(steps[a])], step, num_values)
    /\ pc' = "loaded"
    /\ UNCHANGED <<size, step, num_values, steps, vresult, rresult>>
    /\ UNCHANGED metavars
    /\ UNCHANGED netvars

\* _check_input_values(size, step, num_values, data)
CheckInputValues ==
    /\ pc = "loaded"
    /\ vresult' = _check_input_values(size, step, num_values, data)
    /\ pc' = IF vresult'.outcome = "pass" THEN "validated" ELSE "raised"
    /\ UNCHANGED <<size, step, num_values, data, variant, steps, rresult>>
    /\ UNCHANGED metavars
    /\ UNCHANGED netvars

\* _reshape_data(data, num_x_steps, num_y_steps, num_z_steps, num_values):
\* after the validator in upload_data, or called on its own
ReshapeData ==
    /\ pc \in {"loaded", "validated"}
    /\ rresult' = _reshape_data(data, steps[1], steps[2], steps[3], num_values)
    /\ pc' = IF rresult'.outcome = "ok" THEN "reshaped" ELSE "raised"
    /\ UNCHANGED <<size, step, num_values, data, variant, steps, vresult>>
    /\ UNCHANGED metavars
    /\ UNCHANGED netvars

Next == ComputeSteps \/ LoadData \/ CheckInputValues \/ ReshapeData

Spec == Init /\ [][Next]_vars

----------------------------------------------------------------------------
(* _extract_comsol_metadata on one file *)

Files == UNION {[1..k -> LineSamples] : k \in 0..MaxLines}

\* the model follows at most this many readline() calls; a file of n lines
\* takes at most n + 1 of them
MaxReads == MaxLines + 2

GridIdle ==
    /\ size = <<Unit, Unit, Unit>>
    /\ step = <<Unit, Unit, Unit>>
    /\ num_values = 1
    /\ data = <<>>
    /\ variant = NoEdit
    /\ pc = "idle"
    /\ steps = <<0, 0, 0>>
    /\ vresult = NoResult
    /\ rresult = NoReshape

InitMeta ==
    /\ GridIdle
    /\ NetIdle
    /\ file \in Files
    /\ nread = 0
    /\ metadata = EmptyMap
    /\ mpc = "reading"

\* one turn of the while loop: readline, strip, and either the body for a
\* comment line or stop_reading = True, which ends the loop and returns
ReadLine ==
    /\ mpc = "reading"
    /\ nread < MaxReads
    /\ nread' = nread + 1
    /\ LET line == Strip(Readline(file, nread + 1)) IN
         IF StartsWithMarker(line)
         THEN LET r == ProcessLine(line, metadata) IN
              /\ metadata' = r.md
              /\ mpc' = IF r.ok THEN "reading" ELSE "raised"
         ELSE /\ metadata' = metadata
              /\ mpc' = "returned"
    /\ UNCHANGED file
    /\ UNCHANGED gridvars
    /\ UNCHANGED netvars

NextMeta == ReadLine

SpecMeta == InitMeta /\ [][NextMeta]_vars

\* the call of _extract_comsol_metadata, before the file is opened
InitCall ==
    /\ GridIdle
    /\ NetIdle
    /\ file = <<>>
    /\ nread = 0
    /\ metadata = EmptyMap
    /\ mpc = "called"

\* metadata = {}; with open(file_path, "r") as f: the file the path names
OpenFile ==
    /\ mpc = "called"
    /\ file' \in Files
    /\ mpc' = "reading"
    /\ UNCHANGED <<nread, metadata>>
    /\ UNCHANGED gridvars
    /\ UNCHANGED netvars

NextCall == OpenFile \/ ReadLine

\* one turn of the while loop as the line counter sees it: ReadLine is
\* enabled exactly when LoopTurn is, and the steps of NextCall that are
\* LoopTurn steps are the ReadLine steps
LoopTurn ==
    /\ mpc = "reading"
    /\ nread < MaxReads
    /\ nread' = nread + 1

\* the call with the interpreter kept running: it opens the file, and goes
\* on to the next turn of the while loop as long as there is one
SpecMetaFair ==
    InitCall /\ [][NextCall]_vars /\ WF_vars(OpenFile) /\ WF_nread(LoopTurn)

----------------------------------------------------------------------------
(* The transfer operations of utils.py: requests to the Figshare API.  A    *)
(* response is its status code, whether its body parses as JSON, and the    *)
(* payload the body carries.  A JSON body of a successful response is taken *)
(* to hold the keys the code reads from it.                                 *)

\* upload services list at most MaxParts parts
MaxParts == 2

Statuses == {"200", "201", "202", "404"}
Payloads == {"not found", "forbidden"}
Responses == [status : Statuses, body : {"json", "text"}, payload : Payloads]

\* a request: method, the URL it goes to, the part number of a part URL
Req(method, target, part) == [method |-> method, target |-> target, part |-> part]

\* a RuntimeError whose text leaves the payload out
FailureNoPayload(r) ==
    IF r.body = "json" THEN [kind |-> "RuntimeError", payload |-> "none"]
    ELSE [kind |-> "JSONDecodeError", payload |-> "none"]

\* data = response.json(); raise RuntimeError(f"...: {data}") -- or the
\* error of response.json() itself when the body is not JSON
Failure(r) ==
    IF r.body = "json" THEN [kind |-> "RuntimeError", payload |-> r.payload]
    ELSE [kind |-> "JSONDecodeError", payload |-> "none"]

\* a status test that lets every status pass
CheckStatusNever(r, expected, reads) ==
    IF reads /\ r.body # "json" THEN Failure(r) ELSE NoError

\* if response.status_code != expected: raise ...; then, where the code goes
\* on to read response.json(), the error of that call for a body that is
\* not JSON
CheckStatus(r, expected, reads) ==
    IF r.status # expected THEN Failure(r)
    ELSE IF reads /\ r.body # "json" THEN Failure(r)
    ELSE NoError

\* the part lists: the parts 1..k in the order the service lists them
PartLists ==
    {p \in UNION {[1..k -> 1..k] : k \in 0..MaxParts} :
        \A i, j \in DOMAIN p : i # j => p[i] # p[j]}

\* requests.post(upload_file_url, ...) and the test of its status
UF_Register ==
    /\ npc = "uf_register"
    /\ \E r \in Responses :
          /\ reqs' = Append(reqs, Req("POST", "files", 0))
          /\ resps' = Append(resps, r)
          /\ nerr' = CheckStatus(r, "201", TRUE)
          /\ npc' = IF nerr'.kind = "none" THEN "uf_location" ELSE "raised"
    /\ UNCHANGED <<op, uploadvars, downloadvars, expvars, simvars>>
    /\ UNCHANGED <<gridvars, metavars>>

\* requests.get(file_location_url, ...) and the test of its status
UF_Location ==
    /\ npc = "uf_location"
    /\ \E r \in Responses :
          /\ reqs' = Append(reqs, Req("GET", "location", 0))
          /\ resps' = Append(resps, r)
          /\ nerr' = CheckStatus(r, "200", TRUE)
          /\ npc' = IF nerr'.kind = "none" THEN "uf_parts" ELSE "raised"
    /\ UNCHANGED <<op, uploadvars, downloadvars, expvars, simvars>>
    /\ UNCHANGED <<gridvars, metavars>>

\* requests.get(upload_url, ...), the test of its status, and
\* parts = response.json()["parts"]
UF_PartList ==
    /\ npc = "uf_parts"
    /\ \E r \in Responses :
          /\ reqs' = Append(reqs, Req("GET", "upload_url", 0))
          /\ resps' = Append(resps, r)
          /\ nerr' = CheckStatus(r, "200", TRUE)
          /\ IF nerr'.kind = "none"
             THEN /\ npc' = "uf_put"
                  /\ parts' \in PartLists
             ELSE /\ npc' = "raised"
                  /\ parts' = parts
    /\ UNCHANGED <<op, nput, downloadvars, expvars, simvars>>
    /\ UNCHANGED <<gridvars, metavars>>

\* one turn of the loop over parts: requests.put(url, ...) for the next part
\* and the test of its status
UF_PutPart ==
    /\ npc = "uf_put"
    /\ nput < Len(parts)
    /\ \E r \in Responses :
          /\ reqs' = Append(reqs, Req("PUT", "part", parts[nput + 1]))
          /\ resps' = Append(resps, r)
          /\ nerr' = CheckStatus(r, "200", FALSE)
          /\ IF nerr'.kind = "none"
             THEN npc' = npc /\ nput' = nput + 1
             ELSE npc' = "raised" /\ nput' = nput
    /\ UNCHANGED <<op, parts, downloadvars, expvars, simvars>>
    /\ UNCHANGED <<gridvars, metavars>>

\* after the loop: requests.post(close_file_url, ...) and the test of its
\* status
UF_Close ==
    /\ npc = "uf_put"
    /\ nput = Len(parts)
    /\ \E r \in Responses :
          /\ reqs' = Append(reqs, Req("POST", "close", 0))
          /\ resps' = Append(resps, r)
          /\ nerr' = CheckStatus(r, "202", FALSE)
          /\ npc' = IF nerr'.kind = "none" THEN "done" ELSE "raised"
    /\ UNCHANGED <<op, uploadvars, downloadvars, expvars, simvars>>
    /\ UNCHANGED <<gridvars, metavars>>

upload_file == UF_Register \/ UF_Location \/ UF_PartList \/ UF_PutPart \/ UF_Close

\* articles list at most MaxFiles files
MaxFiles == 2

Listings == UNION {[1..k -> Names] : k \in 0..MaxFiles}

\* requests.get(url, ...) of download_data, the test of its status, and
\* files = response.json()
DD_List ==
    /\ npc = "dd_list"
    /\ \E r \in Responses :
          /\ reqs' = Append(reqs, Req("GET", "article_files", 0))
          /\ resps' = Append(resps, r)
          /\ nerr' = CheckStatus(r, "200", TRUE)
          /\ IF nerr'.kind = "none"
             THEN npc' = "dd_files" /\ listing' \in Listings
             ELSE npc' = "raised" /\ listing' = listing
    /\ UNCHANGED <<op, uploadvars, didx, save_path, disk, expvars, simvars>>
    /\ UNCHANGED <<gridvars, metavars>>

\* the file opened with "wb" before the status is tested: an empty file is
\* left when the test raises
DiskAfterOpenFirst(d, name, err) ==
    IF err.kind = "none" THEN [d EXCEPT ![name] = "downloaded"]
    ELSE [d EXCEPT ![name] = "empty"]

\* the files under save_path after the status test and, if it did not
\* raise, open(..., "wb") and the writing of the chunks
DiskAfter(d, name, err) ==
    IF err.kind = "none" THEN [d EXCEPT ![name] = "downloaded"] ELSE d

\* download_file for the next file of the list: makedirs, the test of
\* save_path, requests.get(download_url, stream=True), the test of its
\* status, and the writing of the file opened with "wb"
download_file ==
    /\ npc = "dd_files"
    /\ didx < Len(listing)
    /\ IF save_path = "notdir"
       THEN /\ nerr' = [kind |-> "ValueError", payload |-> "none"]
            /\ npc' = "raised"
            /\ UNCHANGED <<reqs, resps, didx, save_path, disk>>
       ELSE /\ save_path' = "dir"
            /\ \E r \in Responses :
                  /\ reqs' = Append(reqs, Req("GET", "download_url", didx + 1))
                  /\ resps' = Append(resps, r)
                  /\ nerr' = CheckStatus(r, "200", FALSE)
                  /\ disk' = DiskAfter(disk, listing[didx + 1], nerr')
                  /\ IF nerr'.kind = "none"
                     THEN didx' = didx + 1 /\ npc' = npc
                     ELSE didx' = didx /\ npc' = "raised"
    /\ UNCHANGED <<op, uploadvars, listing, expvars, simvars>>
    /\ UNCHANGED <<gridvars, metavars>>

\* the end of the loop over files: download_data (or download_file called
\* on its own) returns
DD_Return ==
    /\ npc = "dd_files"
    /\ didx = Len(listing)
    /\ npc' = "done"
    /\ UNCHANGED <<op, reqs, resps, nerr, uploadvars, downloadvars, expvars, simvars>>
    /\ UNCHANGED <<gridvars, metavars>>

download_data == DD_List \/ download_file \/ DD_Return

----------------------------------------------------------------------------
(* experiments.upload_data with extract_article_metadata and                *)
(* validate_experiment_metadata.  A dict is a function from the keys it     *)
(* holds; every value is a sequence of strings.  The arrays of the data     *)
(* argument are not modelled.                                               *)

\* the keys a caller's metadata may hold
MetaKeys ==
    {"title", "description", "authors", "keywords", "categories", "license", "type",
     "detector_id", "source_id", "experiment_type", "sample_time", "operator"}

\* the value the caller gives for a key
GivenValue(k) == IF k = "authors" THEN <<"6659987", "6213518">> ELSE <<"given", k>>

Dicts == {[k \in K |-> GivenValue(k)] : K \in SUBSET MetaKeys}

\* defaults of extract_article_metadata
defaults ==
    [keywords |-> <<"scan data">>, categories |-> <<"30103", "30091", "30262">>,
     license |-> <<"1">>, defined_type |-> <<"dataset">>]

\* the pops of the dict display, in the order Python evaluates them: the key
\* popped, the key of article_metadata it fills, and whether pop has no default
PopOrder ==
    << [key |-> "title", out |-> "title", required |-> TRUE],
       [key |-> "description", out |-> "description", required |-> TRUE],
       [key |-> "keywords", out |-> "keywords", required |-> FALSE],
       [key |-> "categories", out |-> "categories", required |-> FALSE],
       [key |-> "authors", out |-> "authors", required |-> TRUE],
       [key |-> "license", out |-> "license", required |-> FALSE],
       [key |-> "type", out |-> "defined_type", required |-> FALSE] >>

\* a pop that leaves the key in the dict (dict.get)
PopKeeps(m, k) == m

\* the dict after metadata.pop(k)
Pop(m, k) == [x \in (DOMAIN m) \ {k} |-> m[x]]

\* the value stored in article_metadata for a popped value
ArticleValue(e, v) ==
    IF e.key = "authors" THEN [i \in 1..Len(v) |-> [id |-> v[i]]] ELSE v

RECURSIVE ExtractFrom(_, _, _)
\* the pops from the k-th on; a pop without default of a key that is not
\* there raises KeyError, and the dict stays as the earlier pops left it
ExtractFrom(k, m, art) ==
    IF k > Len(PopOrder)
    THEN [outcome |-> "ok", metadata |-> m, article |-> art, key |-> "none"]
    ELSE LET e == PopOrder[k] IN
         IF e.key \in DOMAIN m
         THEN ExtractFrom(k + 1, Pop(m, e.key), (e.out :> ArticleValue(e, m[e.key])) @@ art)
         ELSE IF e.required
         THEN [outcome |-> "KeyError", metadata |-> m, article |-> EmptyDict, key |-> e.key]
         ELSE ExtractFrom(k + 1, m, (e.out :> defaults[e.out]) @@ art)

\* extract_article_metadata(metadata): the outcome, the caller's dict after
\* the call, and the dict returned
extract_article_metadata(m) == ExtractFrom(1, m, EmptyDict)

required_metadata == <<"detector_id", "source_id", "experiment_type", "sample_time">>

\* only the first missing key reported
FirstMissing(m) ==
    LET IsMissing(k) == k \notin DOMAIN m
        all == SelectSeq(required_metadata, IsMissing)
    IN  IF all = <<>> THEN <<>> ELSE <<all[1]>>

\* missing_metadata = [key for key in required_metadata if key not in metadata]
MissingMetadata(m) ==
    LET IsMissing(k) == k \notin DOMAIN m IN SelectSeq(required_metadata, IsMissing)

\* article_metadata = extract_article_metadata(metadata)
EU_Extract ==
    /\ npc = "eu_extract"
    /\ LET r == extract_article_metadata(exp_metadata) IN
         /\ exp_metadata' = r.metadata
         /\ article_metadata' = r.article
         /\ nerr' = IF r.outcome = "ok" THEN nerr
                    ELSE [kind |-> "KeyError", payload |-> r.key]
         /\ npc' = IF r.outcome = "ok" THEN "eu_validate" ELSE "raised"
    /\ UNCHANGED <<op, reqs, resps, uploadvars, downloadvars>>
    /\ UNCHANGED <<metadata_arg, missing_metadata, container>>
    /\ UNCHANGED simvars
    /\ UNCHANGED <<gridvars, metavars>>

\* validate_experiment_metadata(metadata)
EU_Validate ==
    /\ npc = "eu_validate"
    /\ missing_metadata' = MissingMetadata(exp_metadata)
    /\ nerr' = IF missing_metadata' # <<>>
               THEN [kind |-> "ValueError", payload |-> "Missing metadata"]
               ELSE nerr
    /\ npc' = IF missing_metadata' # <<>> THEN "raised" ELSE "eu_write"
    /\ UNCHANGED <<op, reqs, resps, uploadvars, downloadvars>>
    /\ UNCHANGED <<exp_metadata, metadata_arg, article_metadata, container>>
    /\ UNCHANGED simvars
    /\ UNCHANGED <<gridvars, metavars>>

\* with h5py.File(file_path, "w") as f: the datasets, and the entries left
\* in metadata as attributes; the file cannot be created where save_path is
\* not a directory
EU_WriteFile ==
    /\ npc = "eu_write"
    /\ IF save_path = "dir"
       THEN /\ container' = [written |-> TRUE, attrs |-> exp_metadata, groups |-> <<>>]
            /\ nerr' = nerr
            /\ npc' = "eu_create"
       ELSE /\ container' = container
            /\ nerr' = [kind |-> "OSError", payload |-> "none"]
            /\ npc' = "raised"
    /\ UNCHANGED <<op, reqs, resps, uploadvars, downloadvars>>
    /\ UNCHANGED <<exp_metadata, metadata_arg, article_metadata, missing_metadata>>
    /\ UNCHANGED simvars
    /\ UNCHANGED <<gridvars, metavars>>

\* requests.post(create_article_url, ...), the test of its status, and
\* article_id = response.json()["entity_id"]; upload_file follows
EU_CreateArticle ==
    /\ npc = "eu_create"
    /\ \E r \in Responses :
          /\ reqs' = Append(reqs, Req("POST", "create_article", 0))
          /\ resps' = Append(resps, r)
          /\ nerr' = CheckStatus(r, "201", TRUE)
          /\ npc' = IF nerr'.kind = "none" THEN "uf_register" ELSE "raised"
    /\ UNCHANGED <<op, uploadvars, downloadvars, expvars, simvars>>
    /\ UNCHANGED <<gridvars, metavars>>

upload_data == EU_Extract \/ EU_Validate \/ EU_WriteFile \/ EU_CreateArticle

\* the operation called, its arguments, and what is under save_path before
\* the call
InitNet ==
    /\ GridIdle
    /\ MetaIdle
    /\ op \in {"upload_file", "download_data", "download_file", "upload_data"}
    /\ npc = CASE op = "upload_file" -> "uf_register"
              [] op = "download_data" -> "dd_list"
              [] op = "download_file" -> "dd_files"
              [] op = "upload_data" -> "eu_extract"
    /\ reqs = <<>>
    /\ resps = <<>>
    /\ parts = <<>>
    /\ nput = 0
    /\ nerr = NoError
    /\ listing \in IF op = "download_file" THEN [1..1 -> Names] ELSE {<<>>}
    /\ didx = 0
    /\ save_path \in IF op = "upload_file" THEN {"dir"} ELSE {"missing", "dir", "notdir"}
    /\ disk \in IF op \in {"download_data", "download_file"} /\ save_path = "dir"
                THEN [Names -> {"absent", "old"}] ELSE {EmptyDisk}
    /\ exp_metadata \in IF op = "upload_data" THEN Dicts ELSE {EmptyDict}
    /\ metadata_arg = exp_metadata
    /\ article_metadata = EmptyDict
    /\ missing_metadata = <<>>
    /\ container = NoContainer
    /\ sidx = 0
    /\ groups = <<>>
    /\ log = <<>>

NextNet == upload_file \/ download_data \/ upload_data

SpecNet == InitNet /\ [][NextNet]_vars

----------------------------------------------------------------------------
(* simulator.upload_data: the four series, the container file, the article  *)
(* and the upload.  The grid variables and the extractor variables hold the *)
(* series being processed.                                                  *)

Series == <<"AW", "CW", "DW", "E">>

\* the container is written after the first series
FirstSeriesDone(i) == i = 1

\* the blocks of the four series have all been passed
AllSeriesDone(i) == i = Len(Series)

\* the text files of a series: a header with the expression count, a header
\* without it, and a header whose node count is not an integer
SimFiles ==
    { << <<"%", " ", "Version", ":", " ", "5.6">>,
         <<"%", " ", "Expressions", ":", " ", "3">>,
         <<"1", " ", "2", " ", "3">> >>,
      << <<"%", " ", "Version", ":", " ", "5.6">>,
         <<"1", " ", "2", " ", "3">> >>,
      << <<"%", " ", "Nodes", ":", " ", "5.6">>,
         <<"%", " ", "Expressions", ":", " ", "3">> >> }

\* the tables of a series: the valid one, the same in z-fastest order, one
\* with a row missing, one with a NaN in its first row
SimVariants(n, C) ==
    {v \in Variants(n, C) :
        \/ v.kind \in {"valid", "zfastest"}
        \/ v.kind \in {"rowdel", "nan"} /\ v.row = 1 /\ v.axis <= 1}

\* the stage of a series entered
Stage(name) == <<Series[sidx], name>>

\* num_x_steps, num_y_steps, num_z_steps (lines 99-101)
SU_Steps ==
    /\ npc = "su_steps"
    /\ IF DivisionFails(size, step)
       THEN /\ nerr' = [kind |-> "ZeroDivisionError", payload |-> "none"]
            /\ npc' = "raised"
            /\ steps' = steps
       ELSE /\ nerr' = nerr
            /\ npc' = "su_extract"
            /\ steps' = StepsPerAxis(size, step)
    /\ UNCHANGED <<size, step, num_values, data, variant, pc, vresult, rresult>>
    /\ UNCHANGED <<op, reqs, resps, uploadvars, downloadvars, expvars, simvars>>
    /\ UNCHANGED metavars

\* x_metadata = _extract_comsol_metadata(...); num_x = x_metadata["expressions"]
SU_Extract ==
    /\ npc = "su_extract"
    /\ \E f \in SimFiles :
          LET r == _extract_comsol_metadata(f) IN
          /\ file' = f
          /\ nread' = r.nread
          /\ metadata' = r.metadata
          /\ mpc' = IF r.outcome = "ok" THEN "returned" ELSE "raised"
          /\ IF r.outcome # "ok"
             THEN /\ nerr' = [kind |-> "ValueError", payload |-> "none"]
                  /\ npc' = "raised"
                  /\ num_values' = num_values
             ELSE IF "expressions" \notin DOMAIN r.metadata
             THEN /\ nerr' = [kind |-> "KeyError", payload |-> "expressions"]
                  /\ npc' = "raised"
                  /\ num_values' = num_values
             ELSE /\ nerr' = nerr
                  /\ npc' = "su_load"
                  /\ num_values' = r.metadata["expressions"]
    /\ log' = Append(log, Stage("extract"))
    /\ UNCHANGED <<size, step, data, variant, pc, steps, vresult, rresult>>
    /\ UNCHANGED <<op, reqs, resps, uploadvars, downloadvars, expvars, sidx, groups>>

\* x_data = np.loadtxt(..., comments="%", dtype=np.float64)
SU_Load ==
    /\ npc = "su_load"
    /\ \E v \in SimVariants([a \in 1..3 |-> LatDim(steps[a])], num_values) :
          /\ variant' = v
          /\ data' = MakeTable(v, [a \in 1..3 |-> LatDim(steps[a])], step, num_values)
    /\ npc' = "su_check"
    /\ UNCHANGED <<size, step, num_values, pc, steps, vresult, rresult>>
    /\ UNCHANGED <<op, reqs, resps, nerr, uploadvars, downloadvars, expvars, simvars>>
    /\ UNCHANGED metavars

\* _check_input_values(size, step, num_x, x_data)
SU_Check ==
    /\ npc = "su_check"
    /\ vresult' = _check_input_values(size, step, num_values, data)
    /\ IF vresult'.outcome = "pass"
       THEN nerr' = nerr /\ npc' = "su_reshape"
       ELSE /\ nerr' = [kind |-> IF vresult'.outcome = "fail" THEN "AssertionError"
                                 ELSE "ValueError",
                        payload |-> vresult'.check]
            /\ npc' = "raised"
    /\ log' = Append(log, Stage("validate"))
    /\ UNCHANGED <<size, step, num_values, data, variant, pc, steps, rresult>>
    /\ UNCHANGED <<op, reqs, resps, uploadvars, downloadvars, expvars, sidx, groups>>
    /\ UNCHANGED metavars

\* x_data = _reshape_data(x_data, num_x_steps, num_y_steps, num_z_steps, num_x);
\* the block of the next series follows, or the writing of the container
SU_Reshape ==
    /\ npc = "su_reshape"
    /\ rresult' = _reshape_data(data, steps[1], steps[2], steps[3], num_values)
    /\ IF rresult'.outcome = "ok"
       THEN /\ nerr' = nerr
            /\ groups' = Append(groups, [attrs |-> metadata, data |-> rresult'.array])
            /\ IF AllSeriesDone(sidx)
               THEN npc' = "su_write" /\ sidx' = sidx
               ELSE npc' = "su_extract" /\ sidx' = sidx + 1
       ELSE /\ nerr' = [kind |-> rresult'.outcome, payload |-> "none"]
            /\ npc' = "raised"
            /\ groups' = groups
            /\ sidx' = sidx
    /\ log' = Append(log, Stage("reshape"))
    /\ UNCHANGED <<size, step, num_values, data, variant, pc, steps, vresult>>
    /\ UNCHANGED <<op, reqs, resps, uploadvars, downloadvars, expvars>>
    /\ UNCHANGED metavars

\* with h5py.File(file_path, "w") as f: a group per series with its
\* metadata and its array, and the size and the step as attributes
SU_WriteFile ==
    /\ npc = "su_write"
    /\ container' = [written |-> TRUE, attrs |-> [size |-> size, step |-> step],
                     groups |-> groups]
    /\ log' = Append(log, <<"file", "write">>)
    /\ npc' = "su_create"
    /\ UNCHANGED <<op, reqs, resps, nerr, uploadvars, downloadvars, sidx, groups>>
    /\ UNCHANGED <<exp_metadata, metadata_arg, article_metadata, missing_metadata>>
    /\ UNCHANGED <<gridvars, metavars>>

\* requests.post(create_article_url, ...), the test of its status, and
\* article_id = response.json()["entity_id"]; upload_file follows
SU_CreateArticle ==
    /\ npc = "su_create"
    /\ \E r \in Responses :
          /\ reqs' = Append(reqs, Req("POST", "create_article", 0))
          /\ resps' = Append(resps, r)
          /\ nerr' = CheckStatus(r, "201", TRUE)
          /\ npc' = IF nerr'.kind = "none" THEN "uf_register" ELSE "raised"
    /\ UNCHANGED <<op, uploadvars, downloadvars, expvars, simvars>>
    /\ UNCHANGED <<gridvars, metavars>>

sim_upload_data ==
    SU_Steps \/ SU_Extract \/ SU_Load \/ SU_Check \/ SU_Reshape \/ SU_WriteFile
        \/ SU_CreateArticle

\* the arguments of simulator.upload_data: a grid of 2 x 2 x 2 points, or a
\* step of 0 on one axis
InitSim ==
    /\ size = <<Unit, Unit, Unit>>
    /\ step \in {<<Unit, Unit, Unit>>, <<Unit, 0, Unit>>}
    /\ num_values = 1
    /\ data = <<>>
    /\ variant = NoEdit
    /\ pc = "idle"
    /\ steps = <<0, 0, 0>>
    /\ vresult = NoResult
    /\ rresult = NoReshape
    /\ MetaIdle
    /\ op = "sim_upload_data"
    /\ npc = "su_steps"
    /\ reqs = <<>>
    /\ resps = <<>>
    /\ parts = <<>>
    /\ nput = 0
    /\ nerr = NoError
    /\ listing = <<>>
    /\ didx = 0
    /\ save_path = "dir"
    /\ disk = EmptyDisk
    /\ exp_metadata = EmptyDict
    /\ metadata_arg = EmptyDict
    /\ article_metadata = EmptyDict
    /\ missing_metadata = <<>>
    /\ container = NoContainer
    /\ sidx = 1
    /\ groups = <<>>
    /\ log = <<>>

NextSim == sim_upload_data \/ upload_file

SpecSim == InitSim /\ [][NextSim]_vars

----------------------------------------------------------------------------
(* Vocabulary of the claims *)

ValidatorRan == vresult.outcome \in {"pass", "fail", "error"}
Accepted == vresult.outcome = "pass"
ReshapeRan == rresult.outcome # "none"
Returned == rresult.outcome = "ok"

\* the table has nx*ny*nz rows and 3 + C columns
RightShape ==
    /\ Len(data) = steps[1] * steps[2] * steps[3]
    /\ Len(data[1]) = 3 + num_values

\* the returned array has shape (C, nx, ny, nz) and element [c][ix][iy][iz]
\* is data[ix + iy*nx + iz*nx*ny][3 + c] (0-based, as in the code)
PositionalArray ==
    /\ DOMAIN rresult.array = 0..(num_values - 1)
    /\ \A c \in 0..(num_values - 1) :
        /\ DOMAIN rresult.array[c] = 0..(steps[1] - 1)
        /\ \A ix \in 0..(steps[1] - 1) :
            /\ DOMAIN rresult.array[c][ix] = 0..(steps[2] - 1)
            /\ \A iy \in 0..(steps[2] - 1) :
                /\ DOMAIN rresult.array[c][ix][iy] = 0..(steps[3] - 1)
                /\ \A iz \in 0..(steps[3] - 1) :
                      rresult.array[c][ix][iy][iz]
                        = data[ix + iy * steps[1] + iz * steps[1] * steps[2] + 1][3 + c + 1]

\* the four corner identities of the returned array, as float64 comparisons
CornerIdentities ==
    \A k \in 1..4 :
        LET q == Corners(steps[1], steps[2])[k] IN
        \A c \in 0..(num_values - 1) :
            FloatEq(rresult.array[c][q.ix][q.iy][q.iz], data[q.row + 1][3 + c + 1])

\* C1: for every flat table with nx*ny*nz rows and 3 + C columns,
\* _reshape_data returns an array of shape (C, nx, ny, nz) whose element
\* [c][ix][iy][iz] is data[ix + iy*nx + iz*nx*ny][3 + c]; stated for the
\* tables of grids with at least two points per axis.
C1_ReshapeReturnsPositional ==
    (ReshapeRan /\ RightShape /\ \A a \in 1..3 : steps[a] >= 2)
        => (Returned /\ PositionalArray)

\* C2: for every input that passes the validator, _reshape_data completes
\* without error and the four corner identities hold.
C2_ValidInputReshapes ==
    (Accepted /\ ReshapeRan) => (Returned /\ CornerIdentities)

\* the lattice the table was exported from, x varying fastest
Dims == [a \in 1..3 |-> LatDim(steps[a])]
Canonical == XFastest(Dims, step, num_values)

\* the value of channel c at lattice point (ix, iy, iz) of the export
FieldValue(ix, iy, iz, c) == PointValue(Dims, ix, iy, iz, c + 1)

\* the rows are those of the lattice, not enumerated x-fastest
MisOrdered == variant.kind = "zfastest" /\ data # Canonical

\* no NaN among the channel values of the rows the corner check reads
CornerRowsFinite ==
    \A k \in 1..4 :
        LET q == Corners(steps[1], steps[2])[k] IN
        q.row < Len(data) => \A j \in 4..Len(data[q.row + 1]) : data[q.row + 1][j] # NaN

\* C3: for a mis-ordered input of the right shape the corner check inside
\* _reshape_data is violated and the reshape aborts with an error instead
\* of returning an array.
C3_MisOrderedCaught ==
    (ReshapeRan /\ RightShape /\ MisOrdered) => ~Returned

\* C3 (amended): the corner check compares the reshaped array with rows of
\* the same table, so a mis-ordered table of the right shape never violates
\* it: with nx, ny, nz >= 2 and no NaN in the corner rows _reshape_data
\* returns the array that follows the row positions.
C3_MisOrderedNotCaught ==
    (ReshapeRan /\ RightShape /\ MisOrdered) =>
        /\ rresult.outcome # "AssertionError"
        /\ ((\A a \in 1..3 : steps[a] >= 2) /\ CornerRowsFinite)
              => (Returned /\ PositionalArray)

\* a mis-ordered table was reshaped and the array holds, at (1, 0, 0), another
\* value than the field has there
C3_Witness ==
    /\ MisOrdered /\ RightShape /\ Returned
    /\ rresult.array[0][1][0][0] # FieldValue(1, 0, 0, 0)

\* the FlatSample invariant: row ix + iy*nx + iz*nx*ny holds the coordinates
\* (ix*step_x, iy*step_y, iz*step_z)
XFastestCoordinates ==
    /\ RightShape
    /\ \A r \in 0..(Len(data) - 1) :
          /\ data[r + 1][1] = (r % steps[1]) * step[1]
          /\ data[r + 1][2] = ((r \div steps[1]) % steps[2]) * step[2]
          /\ data[r + 1][3] = (r \div (steps[1] * steps[2])) * step[3]

\* C4: every table accepted by the validator satisfies the FlatSample
\* invariant: its rows enumerate the lattice x-fastest, then y, then z.
C4_AcceptedIsFlatSample == Accepted => XFastestCoordinates

\* m is the largest difference of axis a between consecutive rows
IsMaxRowStep(m, a) ==
    /\ \E r \in 1..(Len(data) - 1) : data[r + 1][a] - data[r][a] = m
    /\ \A r \in 1..(Len(data) - 1) : data[r + 1][a] - data[r][a] <= m

\* m is the largest coordinate of axis a
IsMaxCoordinate(m, a) ==
    /\ \E r \in 1..Len(data) : data[r][a] = m
    /\ \A r \in 1..Len(data) : data[r][a] <= m

\* the largest consecutive-row difference of axis a is the step, within tolerance
StepMatches(a) ==
    \E r \in 1..(Len(data) - 1) :
        /\ IsMaxRowStep(data[r + 1][a] - data[r][a], a)
        /\ AllClose(data[r + 1][a] - data[r][a], step[a])

\* the largest coordinate of axis a is the size, within tolerance
SizeMatches(a) ==
    \E r \in 1..Len(data) :
        IsMaxCoordinate(data[r][a], a) /\ AllClose(data[r][a], size[a])

\* C4 (amended): every accepted table has nx*ny*nz >= 2 rows and 3 + C
\* columns, and on each axis the largest consecutive-row difference is the
\* step and the largest coordinate is the size, within the tolerance of
\* allclose; the order of the rows is not among the things checked.
C4_AcceptedPassesEachCheck ==
    Accepted =>
        /\ RightShape
        /\ Len(data) >= 2
        /\ \A a \in 1..3 : StepMatches(a) /\ SizeMatches(a)

\* an accepted table that is not a FlatSample
C4_Witness == Accepted /\ ~XFastestCoordinates

\* the order of the checks as the claim gives it
ClaimOrder ==
    <<"rows", "cols", "step_x", "step_y", "step_z", "size_x", "size_y", "size_z">>

Violated(k) == CheckResult(ClaimOrder[k], size, step, num_values, data) # "pass"

\* C5: the checks are evaluated in the order row count, column count, step
\* x, y, z, size x, y, z; the error raised is that of the earliest violated
\* check and no later check is evaluated.
C5_EarliestViolationRaises ==
    ValidatorRan =>
        IF \E k \in 1..8 : Violated(k)
        THEN LET first == CHOOSE k \in 1..8 : Violated(k) /\ \A j \in 1..(k - 1) : ~Violated(j) IN
             /\ vresult.outcome # "pass"
             /\ vresult.check = ClaimOrder[first]
             /\ vresult.evaluated = SubSeq(ClaimOrder, 1, first)
        ELSE Accepted /\ vresult.evaluated = ClaimOrder

\* the validator raised on a table that violates several checks
C5_Witness ==
    /\ ValidatorRan /\ ~Accepted
    /\ Cardinality({k \in 1..8 : Violated(k)}) >= 2

\* the unedited lattice table is accepted by the validator
ParentValid == _check_input_values(size, step, num_values, Canonical).outcome = "pass"

\* C6: a valid FlatSample with exactly one row removed, whichever row, is
\* rejected by check 1, the row-count check.
C6_RowRemovedFailsRowCount ==
    (ValidatorRan /\ variant.kind = "rowdel" /\ ParentValid) =>
        (vresult.outcome = "fail" /\ vresult.check = "rows")

C6_Witness ==
    /\ ValidatorRan /\ variant.kind = "rowdel" /\ ParentValid
    /\ data = RemoveRow(Canonical, variant.row)

StepCheck == <<"step_x", "step_y", "step_z">>
SizeCheck == <<"size_x", "size_y", "size_z">>
Stride == <<1, steps[1], steps[1] * steps[2]>>

\* the 0-based index along axis a of the 0-based row r of an x-fastest table
AxisIndex(r, a) == (r \div Stride[a]) % steps[a]

\* some spacing between successive lattice coordinates along axis a is not
\* the declared step
SpacingDiffers(a) ==
    \E r \in 0..(Len(data) - 1) :
        /\ AxisIndex(r, a) + 1 < steps[a]
        /\ ~AllClose(data[r + Stride[a] + 1][a] - data[r + 1][a], step[a])

\* C7: a FlatSample with a perturbed step (a table made from a valid one,
\* with the correct row and column counts, in which some spacing between
\* successive lattice coordinates along an axis differs from the declared
\* step) makes the validator raise at the step check of that axis.
C7_PerturbedStepFailsStepCheck ==
    (ValidatorRan /\ ParentValid /\ RightShape /\ variant.kind = "pert") =>
        \A a \in 1..3 :
            SpacingDiffers(a) => (vresult.outcome = "fail" /\ vresult.check = StepCheck[a])

\* C7 (amended): for a table of at least two rows with the correct row and
\* column counts, the validator raises at the step check of the first axis
\* (in the order x, y, z) whose largest consecutive-row difference is not
\* the declared step within tolerance; a spacing that differs without
\* changing that maximum is not detected.
C7_MaxRowStepMismatchRaises ==
    (ValidatorRan /\ RightShape /\ Len(data) >= 2) =>
        \A a \in 1..3 :
            (~StepMatches(a) /\ \A b \in 1..(a - 1) : StepMatches(b))
                => (vresult.outcome = "fail" /\ vresult.check = StepCheck[a])

\* the validator raised at the step check of y on a perturbed table
C7_Witness ==
    /\ ValidatorRan /\ RightShape /\ variant.kind = "pert"
    /\ StepMatches(1) /\ ~StepMatches(2)
    /\ vresult.check = "step_y"

\* C8: a FlatSample with a truncated extent (a table made from a valid one
\* whose largest coordinate of some axis is below the declared size of that
\* axis, by more than the tolerance) is rejected by the validator at the
\* size check of that axis.
C8_TruncatedFailsSizeCheck ==
    (ValidatorRan /\ ParentValid) =>
        \A a \in 1..3 :
            (\A r \in 1..Len(data) : data[r][a] < size[a] /\ ~AllClose(data[r][a], size[a]))
                => (vresult.outcome = "fail" /\ vresult.check = SizeCheck[a])

\* C8 (amended): for a table that passes the row-count, column-count and
\* step checks, the validator raises at the size check of the first axis (in
\* the order x, y, z) whose largest coordinate is not the declared size
\* within tolerance (a truncated table with fewer rows fails the row-count
\* check instead).
C8_SizeMismatchRaises ==
    (ValidatorRan /\ RightShape /\ Len(data) >= 2 /\ \A a \in 1..3 : StepMatches(a)) =>
        \A a \in 1..3 :
            (~SizeMatches(a) /\ \A b \in 1..(a - 1) : SizeMatches(b))
                => (vresult.outcome = "fail" /\ vresult.check = SizeCheck[a])

\* the validator raised at the size check of y on a table whose largest y
\* is below the declared size
C8_Witness ==
    /\ ValidatorRan /\ RightShape /\ \A a \in 1..3 : StepMatches(a)
    /\ \A r \in 1..Len(data) : data[r][2] < size[2]
    /\ vresult.check = "size_y"

\* q = floor(a / b) for b > 0
IsFloor(q, a, b) == q * b <= a /\ a < (q + 1) * b
\* q = a / b rounded toward zero, for b > 0
IsTrunc(q, a, b) == IF a >= 0 THEN IsFloor(q, a, b) ELSE (q - 1) * b < a /\ a <= q * b

StepsComputed == pc # "start" /\ ~DivisionFails(size, step)

\* C9: for every declared size and step, the number of steps per axis
\* computed by upload_data and by the validator is floor(size/step) + 1.
C9_StepsAreFloorPlusOne ==
    /\ StepsComputed => \A a \in 1..3 : IsFloor(steps[a] - 1, size[a], step[a])
    /\ ValidatorRan => \A a \in 1..3 : IsFloor(vresult.nsteps[a] - 1, size[a], step[a])

\* C9 (amended): for every declared size and every step > 0, both compute
\* int(size/step) + 1 with the quotient rounded toward zero: that is
\* floor(size/step) + 1 when size >= 0 and ceil(size/step) + 1 when size < 0.
C9_StepsAreTruncPlusOne ==
    /\ StepsComputed => \A a \in 1..3 : IsTrunc(steps[a] - 1, size[a], step[a])
    /\ ValidatorRan => \A a \in 1..3 : IsTrunc(vresult.nsteps[a] - 1, size[a], step[a])

\* both have computed the steps of a grid with a size that is not a multiple
\* of the step, and of one with a negative size
C9_Witness ==
    /\ ValidatorRan /\ vresult.nsteps = steps
    /\ size[1] < 0 /\ steps[1] = 1
    /\ size[2] = Unit /\ step[2] = 2 * Unit /\ steps[2] = 1
    /\ size[3] = 2 * Unit /\ step[3] = Unit /\ steps[3] = 3

\* the line begins with '%'
BeginsWithMarker(l) == l # <<>> /\ l[1] = "%"

\* the line begins with '%' once its leading blanks are dropped
BeginsWithMarkerAfterBlanks(l) ==
    \E i \in 1..Len(l) : l[i] = "%" /\ \A j \in 1..(i - 1) : l[j] = " "

\* the lengths of the maximal leading runs of such lines in the file
RawHeaderLen ==
    CHOOSE k \in 0..Len(file) :
        /\ \A i \in 1..k : BeginsWithMarker(file[i])
        /\ k < Len(file) => ~BeginsWithMarker(file[k + 1])
HeaderLen ==
    CHOOSE k \in 0..Len(file) :
        /\ \A i \in 1..k : BeginsWithMarkerAfterBlanks(file[i])
        /\ k < Len(file) => ~BeginsWithMarkerAfterBlanks(file[k + 1])

RECURSIVE HeaderMetadata(_)
\* the mapping made from the first k lines alone, each a comment line
HeaderMetadata(k) ==
    IF k = 0 THEN EmptyMap
    ELSE ProcessLine(Strip(file[k]), HeaderMetadata(k - 1)).md

\* C10: exactly the maximal leading run of lines that begin with '%' is
\* processed; the first line that does not is the last one read, and no line
\* after it is read or contributes to the result.
C10_StopsAfterLeadingMarkerLines ==
    /\ nread <= RawHeaderLen + 1
    /\ mpc = "returned" =>
          (nread = RawHeaderLen + 1 /\ metadata = HeaderMetadata(RawHeaderLen))

\* C10 (amended): the same, for the maximal leading run of lines that begin
\* with '%' once surrounding whitespace is stripped: the first line that
\* does not is the last one read (a ValueError of int() or strptime() ends
\* the reading earlier), and no later line is read or contributes.
C10_StopsAfterHeader ==
    /\ nread <= HeaderLen + 1
    /\ mpc = "returned" =>
          (nread = HeaderLen + 1 /\ metadata = HeaderMetadata(HeaderLen))
    /\ mpc = "raised" => nread <= HeaderLen

\* the function returned before the end of a file whose later lines hold a
\* comment line with a recognized key
C10_Witness ==
    /\ mpc = "returned" /\ nread < Len(file)
    /\ \E i \in (nread + 1)..Len(file) :
          /\ BeginsWithMarker(file[i])
          /\ ProcessLine(file[i], EmptyMap).md # EmptyMap
    /\ metadata # EmptyMap

\* the key of a comment line: the text between the marker and the first
\* colon (the whole rest of the line if there is no colon), trimmed
TrimmedKey(l) ==
    LET rest == Tail(l)
        n == IF \E i \in 1..Len(rest) : rest[i] = ":"
             THEN (CHOOSE i \in 1..Len(rest) :
                      rest[i] = ":" /\ \A j \in 1..(i - 1) : rest[j] # ":") - 1
             ELSE Len(rest)
    IN  Strip(SubSeq(rest, 1, n))

\* the recognized keys and the entry each of them is stored under
Recognized ==
    { <<<<"Version">>, "COMSOL_version">>, <<<<"Date">>, "date">>,
      <<<<"Nodes">>, "nodes">>, <<<<"Expressions">>, "expressions">>,
      <<<<"Dimensions">>, "dimensions">>,
      <<<<"Length", " ", "unit">>, "length_unit">> }

\* the header (the comment lines the extractor processes) has a line with
\* this key
HeaderHasKey(key) ==
    \E i \in 1..HeaderLen : TrimmedKey(Strip(file[i])) = key

\* C11: the returned mapping has the entry of a recognized field exactly when
\* the header has a line whose trimmed key is exactly that key; it has no
\* other entry, and it is empty when the file has no comment header.
C11_EntriesAreRecognizedKeys ==
    mpc = "returned" =>
        /\ \A p \in Recognized : (p[2] \in DOMAIN metadata) <=> HeaderHasKey(p[1])
        /\ DOMAIN metadata \subseteq {p[2] : p \in Recognized}
        /\ HeaderLen = 0 => metadata = EmptyMap

\* a mapping was returned for a header of three lines: one with a recognized
\* key, one with the same key in another case, one with a key that is not
\* recognized; only the first is in the mapping
C11_Witness ==
    /\ mpc = "returned" /\ HeaderLen = 3
    /\ HeaderHasKey(<<"Version">>) /\ HeaderHasKey(<<"nodes">>) /\ HeaderHasKey(<<"Model">>)
    /\ DOMAIN metadata = {"COMSOL_version"}

\* the value a check derives from the declared inputs (size, step,
\* channel_count) and the value it observes in the data
Declared(check) ==
    CASE check = "rows" -> steps[1] * steps[2] * steps[3]
      [] check = "cols" -> num_values + 3
      [] check \in {"step_x", "step_y", "step_z"} -> step[AxisOf(check)]
      [] check \in {"size_x", "size_y", "size_z"} -> size[AxisOf(check)]
Observed(check) ==
    CASE check = "rows" -> Len(data)
      [] check = "cols" -> Len(data[1])
      [] check \in {"step_x", "step_y", "step_z"} ->
            SetMax({data[r + 1][AxisOf(check)] - data[r][AxisOf(check)] :
                       r \in 1..(Len(data) - 1)})
      [] check \in {"size_x", "size_y", "size_z"} ->
            SetMax({data[r][AxisOf(check)] : r \in 1..Len(data)})

\* C12: when a validator check fails, the error names the failed check and
\* shows the value derived from the declared inputs as 'expected' and the
\* value observed in the data as 'got', for every check alike.
C12_MessageHasRightRoles ==
    (ValidatorRan /\ vresult.outcome = "fail") =>
        /\ vresult.message.names = vresult.check
        /\ vresult.message.expected = Declared(vresult.check)
        /\ vresult.message.got = Observed(vresult.check)

\* the reshape of _reshape_data: drop the coordinates, reshape in Fortran
\* order, move the channel axis to the front
Reshaped(t) ==
    Transpose3012(ReshapeF(RavelF(t), steps[1], steps[2], steps[3], num_values),
                  steps[1], steps[2], steps[3], num_values)

\* flatten, as the claim gives it: dense[c][ix][iy][iz] goes to row
\* ix + iy*nx + iz*nx*ny, column 3 + c; the coordinates are those of t
Flatten(D, t) ==
    [r \in 1..(steps[1] * steps[2] * steps[3]) |->
        [j \in 1..(3 + num_values) |->
            IF j <= 3 THEN t[r][j]
            ELSE D[j - 4][(r - 1) % steps[1]]
                         [((r - 1) \div steps[1]) % steps[2]]
                         [(r - 1) \div (steps[1] * steps[2])]]]

\* C13: round trip of the reshape: for every flat table x of nx*ny*nz rows
\* and 3 + C columns, flatten(reshape(x)) is x and reshape(flatten(reshape(x)))
\* is reshape(x); the array _reshape_data returns is that reshape(x).
C13_ReshapeRoundTrip ==
    (ReshapeRan /\ RightShape) =>
        LET R == Reshaped(data)
            F == Flatten(R, data)
        IN  /\ F = data
            /\ Reshaped(F) = R
            /\ Returned => rresult.array = R

\* a table of 3 x 2 x 2 points and two channels was reshaped, and the array
\* returned flattens to the table
C13_Witness ==
    /\ Returned /\ RightShape
    /\ steps = <<3, 2, 2>> /\ num_values = 2
    /\ Flatten(rresult.array, data) = data

\* a success status (2xx)
IsSuccess(st) == st \in {"200", "201", "202"}

\* s is a prefix of t
IsPrefix(s, t) == Len(s) <= Len(t) /\ SubSeq(t, 1, Len(s)) = s

\* the requests of a complete upload_file for the part list p
FullUpload(p) ==
    <<Req("POST", "files", 0), Req("GET", "location", 0), Req("GET", "upload_url", 0)>>
        \o [i \in 1..Len(p) |-> Req("PUT", "part", p[i])]
        \o <<Req("POST", "close", 0)>>

\* the index of the first request of upload_file among the requests
UploadStart ==
    IF \E i \in 1..Len(reqs) : reqs[i].target = "files"
    THEN CHOOSE i \in 1..Len(reqs) : reqs[i].target = "files"
    ELSE Len(reqs) + 1

\* the requests of upload_file
UploadReqs == SubSeq(reqs, UploadStart, Len(reqs))

\* C14: upload_file issues register (POST), fetch file location (GET), fetch
\* part list (GET), one PUT per part in the order listed, finalize (POST), in
\* this order; finalize is issued at most once and only after the PUT of
\* every part has returned success.
C14_UploadRequestOrder ==
    /\ IsPrefix(UploadReqs, FullUpload(parts))
    /\ Cardinality({i \in 1..Len(reqs) : reqs[i].target = "close"}) <= 1
    /\ \A i \in 1..Len(reqs) :
          reqs[i].target = "close" =>
              /\ nput = Len(parts)
              /\ \A k \in 1..Len(parts) :
                    \E j \in 1..(i - 1) :
                        /\ reqs[j] = Req("PUT", "part", parts[k])
                        /\ IsSuccess(resps[j].status)

\* the upload of a file of two parts, listed as 2, 1, was finalized
C14_Witness ==
    /\ npc = "done" /\ op = "upload_file"
    /\ parts = <<2, 1>>
    /\ reqs = FullUpload(parts)

\* the operation was ended by the handling of a response
AbortedByResponse == nerr.kind \in {"RuntimeError", "JSONDecodeError"}

ExpectedStatus(q) ==
    CASE q.target \in {"files", "create_article"} -> "201"
      [] q.target = "close" -> "202"
      [] OTHER -> "200"

\* the code reads the JSON body of the accepted response of this request
ReadsBody(q) == q.target \in {"files", "location", "upload_url", "article_files", "create_article"}

ExtractedKeys ==
    {"title", "description", "keywords", "categories", "authors", "license", "type"}

\* extract_article_metadata was called and returned
ExtractReturned == op = "upload_data" /\ npc # "eu_extract" /\ nerr.kind # "KeyError"

\* extract_article_metadata was called and raised
ExtractRaised == op = "upload_data" /\ npc = "raised" /\ nerr.kind = "KeyError"

\* C16: after a successful call of extract_article_metadata the caller's
\* mapping holds exactly its original entries minus the keys title,
\* description, keywords, categories, authors, license and type; every
\* other entry is unchanged.
C16_ExtractRemovesArticleKeys ==
    ExtractReturned =>
        /\ DOMAIN exp_metadata = (DOMAIN metadata_arg) \ ExtractedKeys
        /\ \A k \in DOMAIN exp_metadata : exp_metadata[k] = metadata_arg[k]

\* the call returned for a mapping that held every key: the four keys of
\* the experiment and one more are what is left of it
C16_Witness ==
    /\ ExtractReturned
    /\ DOMAIN metadata_arg = MetaKeys
    /\ DOMAIN exp_metadata =
          {"detector_id", "source_id", "experiment_type", "sample_time", "operator"}
    /\ article_metadata.defined_type = GivenValue("type")

\* the stages of a complete simulator.upload_data, in order
FullLog ==
    << <<"AW", "extract">>, <<"AW", "validate">>, <<"AW", "reshape">>,
       <<"CW", "extract">>, <<"CW", "validate">>, <<"CW", "reshape">>,
       <<"DW", "extract">>, <<"DW", "validate">>, <<"DW", "reshape">>,
       <<"E", "extract">>, <<"E", "validate">>, <<"E", "reshape">>,
       <<"file", "write">> >>

\* all four series have passed extraction, validation and reshape
AllSeriesPassed ==
    /\ Len(groups) = 4
    /\ SubSeq(log, 1, 12) = SubSeq(FullLog, 1, 12)
    /\ \A i \in 1..4 : "expressions" \in DOMAIN groups[i].attrs

\* C17: in simulator.upload_data each of the four series (AW, CW, DW, E, in
\* that order) goes through extract metadata, validate, reshape; the
\* container file is written and the first request is issued only after all
\* four series have passed; if an extraction, validation or reshape fails,
\* no container file is written and no request is sent.
C17_SeriesBeforeFileAndRequests ==
    /\ IsPrefix(log, FullLog)
    /\ container.written => AllSeriesPassed
    /\ reqs # <<>> => (AllSeriesPassed /\ container.written)
    /\ (npc = "raised" /\ ~AllSeriesPassed) => (~container.written /\ reqs = <<>>)

\* the container was written with four groups and the article was requested,
\* after the four series passed in order
C17_Witness ==
    /\ AllSeriesPassed /\ container.written /\ Len(reqs) = 1
    /\ Len(container.groups) = 4
    /\ log = FullLog

\* the required keys of the experiment that the mapping passed to
\* upload_data lacks, in the order of the list of required keys
LackedKeys ==
    LET Lacked(k) == k \notin DOMAIN metadata_arg IN
    SelectSeq(<<"detector_id", "source_id", "experiment_type", "sample_time">>, Lacked)

\* the mapping passed has title, description and authors
HasArticleKeys == {"title", "description", "authors"} \subseteq DOMAIN metadata_arg

\* C18: experiments.upload_data called with metadata that has title,
\* description and authors but lacks any of detector_id, source_id,
\* experiment_type, sample_time raises the missing-metadata error, listing
\* every missing required key, before any container file is written and
\* before any request is made.
C18_MissingMetadataRaisesFirst ==
    (op = "upload_data" /\ HasArticleKeys /\ LackedKeys # <<>>) =>
        /\ ~container.written
        /\ reqs = <<>>
        /\ npc \in {"eu_extract", "eu_validate", "raised"}
        /\ npc = "raised" =>
              /\ nerr = [kind |-> "ValueError", payload |-> "Missing metadata"]
              /\ missing_metadata = LackedKeys

\* the error was raised for a mapping that lacks two of the required keys
C18_Witness ==
    /\ op = "upload_data" /\ HasArticleKeys /\ npc = "raised"
    /\ nerr.kind = "ValueError"
    /\ missing_metadata = <<"source_id", "sample_time">>
    /\ ~container.written /\ reqs = <<>>

\* C19: if extract_article_metadata raises because title, description or
\* authors is missing, the caller's mapping is exactly as it was before the
\* call: no key has been removed.
C19_FailedExtractLeavesMapping ==
    ExtractRaised => exp_metadata = metadata_arg

\* download_file has raised on the response to the request of a file
DownloadFailed ==
    /\ op \in {"download_data", "download_file"}
    /\ npc = "raised"
    /\ reqs # <<>> /\ reqs[Len(reqs)].target = "download_url"

\* the requests of files made so far
FileRequests == SelectSeq(reqs, LAMBDA q : q.target = "download_url")

\* C20: when download_file gets a non-success response for the download_url
\* it raises without creating, truncating or writing the target file: the
\* files under save_path are what they were before the request, so a file
\* of that name already there keeps its content; in download_data the files
\* downloaded before the failing one are kept and the ones after it are
\* never requested.
C20_FailedDownloadKeepsFiles ==
    /\ [][(npc = "dd_files" /\ npc' = "raised") => disk' = disk]_vars
    /\ [](\A i \in 1..Len(reqs) :
            (reqs[i].target = "download_url" /\ ~IsSuccess(resps[i].status))
                => (i = Len(reqs) /\ DownloadFailed))
    /\ [](DownloadFailed =>
            /\ resps[Len(resps)].status # "200"
            /\ \A i \in 1..didx : disk[listing[i]] = "downloaded"
            /\ \A n \in Names :
                  (\A i \in 1..didx : listing[i] # n) => disk[n] \in {"absent", "old"}
            /\ FileRequests = [i \in 1..(didx + 1) |-> Req("GET", "download_url", i)])

\* download_data failed on the second of two files with a 404: the first is
\* downloaded, the file already there under the name of the second has its
\* old content, and two files were requested
C20_Witness ==
    /\ DownloadFailed /\ op = "download_data"
    /\ listing = <<"a.hdf5", "b.hdf5">> /\ didx = 1
    /\ resps[Len(resps)].status = "404"
    /\ disk = [n \in Names |-> IF n = "a.hdf5" THEN "downloaded" ELSE "old"]
    /\ Len(FileRequests) = 2

\* no comment line of the header holds a value that int() or strptime()
\* refuses
HeaderParses ==
    \A i \in 1..HeaderLen : ProcessLine(Strip(file[i]), EmptyMap).ok

\* C21: _extract_comsol_metadata terminates on every finite file, an empty
\* file and a file made only of comment lines included: the call always
\* ends, by stop_reading (the function returns) whenever no comment line
\* makes int() or strptime() raise and by that ValueError otherwise, and it
\* never calls readline() more than once past the last line.
C21_ExtractorTerminates ==
    /\ <>(mpc \in {"returned", "raised"})
    /\ (mpc = "reading" /\ HeaderParses) ~> (mpc = "returned")
    /\ [](nread <= Len(file) + 1)

\* C21 as first stated: on every file the read loop reaches the stop state,
\* stop_reading = True
C21_LoopAlwaysStops ==
    <>(mpc = "returned")

\* the function returned on a file made only of comment lines, after the
\* readline() at the end of the file
C21_Witness ==
    /\ mpc = "returned"
    /\ Len(file) >= 2 /\ HeaderLen = Len(file)
    /\ nread = Len(file) + 1

====
